---- MODULE Spec2Model ----
(***************************************************************************)
(* Millikan oil-drop simulation (src/oildrop.py): the script that draws    *)
(* the drop masses, derives the mass differences and calls                 *)
(* find_charge_unit, the grid search for the fundamental unit.             *)
(*                                                                         *)
(* Numbers.  Every real quantity x of the script (a mass, a difference, a  *)
(* candidate unit) is the integer 100*x, i.e. it is held in hundredths.    *)
(* A fit score is a rational: for one candidate c every term               *)
(* |d/c - round(d/c)| has denominator c, so the score is num/den with      *)
(* den = c.  The script computes in binary floating point.  Rounding       *)
(* error there is of the order 1e-15, far below the gap between two        *)
(* different exact scores (at least 1/(29*28)), so it can only decide the  *)
(* comparison of two scores that are equal in exact arithmetic.  Which way *)
(* it decides depends on the doubles numpy puts on the grid, which the     *)
(* script does not fix; the model therefore gives a computed score a       *)
(* rounding residue res in 0..MaxResidue, chosen freely, that orders       *)
(* scores whose exact values agree (see Residues).  Under SpecExact the    *)
(* residue is always 0: exact decimal arithmetic.                          *)
(***************************************************************************)
EXTENDS Integers, Sequences, FiniteSets, TLC

VARIABLES
    pc,               \* position in the script / in find_charge_unit
    fp,               \* TRUE: floating point (residues); FALSE: exact
    drop_masses,      \* line 19
    electrons_picked, \* line 20
    sorted_masses,    \* line 31
    min_mass,         \* line 32
    mass_differences, \* line 35
    differences,      \* the argument of find_charge_unit
    search_low,       \* np.arange start  (0.5 in the script)
    search_high,      \* np.arange stop   (3.0 in the script)
    search_step,      \* np.arange step   (0.1 in the script)
    non_zero_diffs,   \* line 54
    best_unit,        \* line 57
    min_error,        \* line 58
    i,                \* index of the next grid point of the loop of line 60
    scores,           \* history: the score computed for each probed point
    result,           \* the value returned at line 72
    run,              \* number of the call (SpecGrid calls twice)
    first_result,     \* result of the first call
    first_step        \* search_step of the first call

vars == <<pc, fp, drop_masses, electrons_picked, sorted_masses, min_mass,
          mass_differences, differences, search_low, search_high,
          search_step, non_zero_diffs, best_unit, min_error, i, scores,
          result, run, first_result, first_step>>

scriptVars == <<drop_masses, electrons_picked, sorted_masses, min_mass,
                mass_differences>>
gridVars == <<search_low, search_high, search_step>>
callVars == <<run, first_result, first_step>>

----------------------------------------------------------------------------
\* Bounds of the model

\* longest difference sequence handed to find_charge_unit
MaxLen == 4
\* largest rounding residue of a computed score
MaxResidue == 1
\* number of drops generated (NUM_DROPS = 50 in the script)
MaxDrops == 3
\* largest electron count drawn (20 in the script)
MaxElectrons == 4
\* longest difference sequence under SpecGrid
MaxLenGrid == 2

----------------------------------------------------------------------------
\* Constants of the script, in hundredths

ELECTRON_CHARGE == 120
BASE_MASS == 650
\* the literal 0.1 of `if d > 0.1`
NearZero == 10
\* np.arange(0.5, 3.0, 0.1)
ArangeStart == 50
ArangeStop == 300
ArangeStep == 10

----------------------------------------------------------------------------
\* Arithmetic helpers

Min2(a, b) == IF a < b THEN a ELSE b

\* round(x, 1): the nearest tenth.  A value exactly halfway between two
\* tenths (x % 10 = 5) goes up or down with the binary expansion of the
\* double; such values are kept out of the inputs.
Round1(x) == ((x + 5) \div 10) * 10

\* number of points of np.arange(lo, hi, st), st # 0:
\* ceil((hi - lo) / st), never negative
ArangeLen(lo, hi, st) ==
    IF st > 0
    THEN IF hi > lo THEN (hi - lo + st - 1) \div st ELSE 0
    ELSE IF hi < lo THEN (lo - hi + (-st) - 1) \div (-st) ELSE 0

\* the k-th point (k = 0, 1, ...) of np.arange(lo, hi, st)
ArangeAt(lo, st, k) == lo + k * st

\* the points of np.arange(lo, hi, st)
Arange(lo, hi, st) == {ArangeAt(lo, st, k) : k \in 0..(ArangeLen(lo, hi, st) - 1)}

\* |ratio - round(ratio)| * c for ratio = d / c: the distance from d to the
\* nearest multiple of c
Deviation(d, c) == Min2(d % c, c - (d % c))

RECURSIVE SumDeviation(_, _)
\* lines 61-66: the error accumulated over the differences, times c
SumDeviation(ds, c) ==
    IF ds = <<>> THEN 0
    ELSE Deviation(Head(ds), c) + SumDeviation(Tail(ds), c)

\* 0 in place of float("inf")
ZeroError == [inf |-> FALSE, num |-> 0, den |-> 1, res |-> 0]

\* line 58: float("inf")
Infinity == [inf |-> TRUE, num |-> 0, den |-> 1, res |-> 0]

\* the score of candidate c on the differences ds, with rounding residue r
Score(ds, c, r) == [inf |-> FALSE, num |-> SumDeviation(ds, c), den |-> c, res |-> r]

\* the exact values of two finite scores compare as a.num/a.den ? b.num/b.den
ExactLess(a, b) == a.num * b.den < b.num * a.den
ExactEq(a, b) == a.num * b.den = b.num * a.den

\* a <= b in place of a < b
LessOrEqual(a, b) ==
    IF a.inf THEN b.inf
    ELSE IF b.inf THEN TRUE
    ELSE ExactLess(a, b) \/ (ExactEq(a, b) /\ a.res <= b.res)

\* line 68: error < min_error
Less(a, b) ==
    IF a.inf THEN FALSE
    ELSE IF b.inf THEN TRUE
    ELSE ExactLess(a, b) \/ (ExactEq(a, b) /\ a.res < b.res)

\* the residues a score computed for candidate c of the grid can carry.
\* None when the sum is the integer 0 of line 61 (no difference to add).
\* The value returned depends on the residues only through the order they
\* put on the candidates whose exact score is the least of the grid; a
\* score above that least value loses every comparison that matters
\* whatever its residue, and its residue is taken as 0.
Residues(ds, c, grid) ==
    IF /\ fp
       /\ ds # <<>>
       /\ \A c2 \in grid : ~ExactLess(Score(ds, c2, 0), Score(ds, c, 0))
    THEN 0..MaxResidue
    ELSE {0}

----------------------------------------------------------------------------
\* Inputs

\* the differences handed to find_charge_unit: zero, a value below the
\* literal 0.1, multiples of 0.6, 0.7 and 1.2, and a value that round(d, 1)
\* changes (1.24)
DiffVals == {0, 4, 120, 124, 240, 360, 420, 480}

IsAscending(s) == \A a, b \in 1..Len(s) : a < b => s[a] <= s[b]

\* line 35 builds the argument from the sorted masses: it is ascending
DiffSeqs(n) == {s \in UNION {[1..m -> DiffVals] : m \in 0..n} : IsAscending(s)}

\* the grids of SpecGrid: the script's, a coarser one on the same range,
\* one with search_low >= search_high and one with a negative step.  A step
\* of 0 makes np.arange itself raise and is left out.
GridVals == {<<ArangeStart, ArangeStop, ArangeStep>>,
             <<ArangeStart, ArangeStop, 2 * ArangeStep>>,
             <<200, 100, ArangeStep>>,
             <<ArangeStart, ArangeStop, -ArangeStep>>}

----------------------------------------------------------------------------
\* Initial states

\* lines 57-58 and the loop index: the locals of a call before its loop
CallStart ==
    /\ non_zero_diffs = <<>>
    /\ best_unit = 0
    /\ min_error = Infinity
    /\ i = 0
    /\ scores = <<>>
    /\ result = 0

NoScript ==
    /\ drop_masses = <<>>
    /\ electrons_picked = <<>>
    /\ sorted_masses = <<>>
    /\ min_mass = 0
    /\ mass_differences = <<>>

ScriptGrid ==
    /\ search_low = ArangeStart
    /\ search_high = ArangeStop
    /\ search_step = ArangeStep

FirstCall ==
    /\ run = 1
    /\ first_result = 0
    /\ first_step = 0

\* find_charge_unit called on any ascending difference sequence
Init ==
    /\ pc = "filter"
    /\ fp = TRUE
    /\ differences \in DiffSeqs(MaxLen)
    /\ NoScript /\ ScriptGrid /\ FirstCall /\ CallStart

\* the same in exact decimal arithmetic
InitExact ==
    /\ pc = "filter"
    /\ fp = FALSE
    /\ differences \in DiffSeqs(MaxLen)
    /\ NoScript /\ ScriptGrid /\ FirstCall /\ CallStart

\* the arguments of np.arange at line 60 taken as inputs of the call
InitGrid ==
    /\ pc = "filter"
    /\ fp = TRUE
    /\ differences \in DiffSeqs(MaxLenGrid)
    /\ \E g \in GridVals :
          /\ search_low = g[1]
          /\ search_high = g[2]
          /\ search_step = g[3]
    /\ NoScript /\ FirstCall /\ CallStart

\* the script from its first line
InitScript ==
    /\ pc = "generate"
    /\ fp = TRUE
    /\ differences = <<>>
    /\ NoScript /\ ScriptGrid /\ FirstCall /\ CallStart

----------------------------------------------------------------------------
\* The script, lines 19-35 and 75

\* lines 22-28: one pass of the generation loop
Generate ==
    /\ pc = "generate"
    /\ Len(drop_masses) < MaxDrops
    /\ \E n_electrons \in 1..MaxElectrons :
          /\ drop_masses' = Append(drop_masses, BASE_MASS + n_electrons * ELECTRON_CHARGE)
          /\ electrons_picked' = Append(electrons_picked, n_electrons)
    /\ UNCHANGED <<pc, fp, sorted_masses, min_mass, mass_differences,
                   differences, gridVars, non_zero_diffs, best_unit,
                   min_error, i, scores, result, callVars>>

RECURSIVE Insert(_, _)
\* x put into the ascending sequence s
Insert(x, s) ==
    IF s = <<>> THEN <<x>>
    ELSE IF x <= Head(s) THEN <<x>> \o s
    ELSE <<Head(s)>> \o Insert(x, Tail(s))

RECURSIVE Sorted(_)
\* sorted(s)
Sorted(s) == IF s = <<>> THEN <<>> ELSE Insert(Head(s), Sorted(Tail(s)))

RECURSIVE MinOf(_)
\* min(s), s not empty
MinOf(s) ==
    IF Len(s) = 1 THEN Head(s) ELSE Min2(Head(s), MinOf(Tail(s)))

\* lines 31-32, once the generation loop has ended
SortMasses ==
    /\ pc = "generate"
    /\ Len(drop_masses) = MaxDrops
    /\ sorted_masses' = Sorted(drop_masses)
    /\ min_mass' = MinOf(Sorted(drop_masses))
    /\ pc' = "diffs"
    /\ UNCHANGED <<fp, drop_masses, electrons_picked, mass_differences,
                   differences, gridVars, non_zero_diffs, best_unit,
                   min_error, i, scores, result, callVars>>

\* line 35
MassDifferences ==
    /\ pc = "diffs"
    /\ mass_differences' = [k \in 1..Len(sorted_masses) |-> sorted_masses[k] - min_mass]
    /\ pc' = "call"
    /\ UNCHANGED <<fp, drop_masses, electrons_picked, sorted_masses, min_mass,
                   differences, gridVars, non_zero_diffs, best_unit,
                   min_error, i, scores, result, callVars>>

\* line 75: find_charge_unit(mass_differences)
CallFindChargeUnit ==
    /\ pc = "call"
    /\ differences' = mass_differences
    /\ pc' = "filter"
    /\ UNCHANGED <<fp, scriptVars, gridVars, non_zero_diffs, best_unit,
                   min_error, i, scores, result, callVars>>

----------------------------------------------------------------------------
\* find_charge_unit, lines 51-72

RECURSIVE NonZeroKeepAll(_, _)
\* the comprehension without its condition: [round(d, 1) for d in ds]
NonZeroKeepAll(ds, low) ==
    IF ds = <<>> THEN <<>>
    ELSE <<Round1(Head(ds))>> \o NonZeroKeepAll(Tail(ds), low)

RECURSIVE NonZero(_, _)
\* [round(d, 1) for d in ds if d > low]
NonZero(ds, low) ==
    IF ds = <<>> THEN <<>>
    ELSE IF Head(ds) > low
         THEN <<Round1(Head(ds))>> \o NonZero(Tail(ds), low)
         ELSE NonZero(Tail(ds), low)

\* the comprehension run on the argument itself
FilterInPlace ==
    /\ pc = "filter"
    /\ non_zero_diffs' = NonZero(differences, NearZero)
    /\ differences' = NonZero(differences, NearZero)
    /\ pc' = "probe"
    /\ UNCHANGED <<fp, scriptVars, gridVars, best_unit, min_error, i,
                   scores, result, callVars>>

\* line 54 (lines 57-58 are the values CallStart gives the locals)
Filter ==
    /\ pc = "filter"
    /\ non_zero_diffs' = NonZero(differences, NearZero)
    /\ pc' = "probe"
    /\ UNCHANGED <<fp, scriptVars, differences, gridVars, best_unit,
                   min_error, i, scores, result, callVars>>

\* lines 60-70: one pass of the loop, for the grid point number i
Probe ==
    /\ pc = "probe"
    /\ i < ArangeLen(search_low, search_high, search_step)
    /\ LET test_unit == ArangeAt(search_low, search_step, i)
       IN \E r \in Residues(non_zero_diffs, test_unit,
                             Arange(search_low, search_high, search_step)) :
            LET error == Score(non_zero_diffs, test_unit, r)
            IN /\ scores' = Append(scores, error)
               /\ IF Less(error, min_error)
                  THEN /\ min_error' = error
                       /\ best_unit' = test_unit
                  ELSE UNCHANGED <<min_error, best_unit>>
    /\ i' = i + 1
    /\ UNCHANGED <<pc, fp, scriptVars, differences, gridVars,
                   non_zero_diffs, result, callVars>>

\* line 72, once the loop has ended
Return ==
    /\ pc = "probe"
    /\ i >= ArangeLen(search_low, search_high, search_step)
    /\ result' = Round1(best_unit)
    /\ pc' = "done"
    /\ UNCHANGED <<fp, scriptVars, differences, gridVars, non_zero_diffs,
                   best_unit, min_error, i, scores, callVars>>

\* a second call on the same differences with a smaller step
CallAgain ==
    /\ pc = "done"
    /\ run = 1
    /\ \E g \in GridVals :
          /\ g[1] = search_low
          /\ g[2] = search_high
          /\ g[3] > 0
          /\ g[3] < search_step
          /\ search_step' = g[3]
    /\ run' = 2
    /\ first_result' = result
    /\ first_step' = search_step
    /\ non_zero_diffs' = <<>>
    /\ best_unit' = 0
    /\ min_error' = Infinity
    /\ i' = 0
    /\ scores' = <<>>
    /\ result' = 0
    /\ pc' = "filter"
    /\ UNCHANGED <<fp, scriptVars, differences, search_low, search_high>>

----------------------------------------------------------------------------
\* Specifications

Next == Filter \/ Probe \/ Return

Spec == Init /\ [][Next]_vars

SpecExact == InitExact /\ [][Next]_vars

NextGrid == Filter \/ Probe \/ Return \/ CallAgain

SpecGrid == InitGrid /\ [][NextGrid]_vars

NextScript ==
    \/ Generate
    \/ SortMasses
    \/ MassDifferences
    \/ CallFindChargeUnit
    \/ Filter
    \/ Probe
    \/ Return

SpecScript == InitScript /\ [][NextScript]_vars

----------------------------------------------------------------------------
\* Vocabulary of the properties

\* |x|
Abs(x) == IF x < 0 THEN -x ELSE x

\* the grid of the call
Grid == Arange(search_low, search_high, search_step)

\* the call has returned
Returned == pc = "done"

\* the elements of a sequence
Elems(s) == {s[k] : k \in 1..Len(s)}

\* c divides every difference that survived the filter
DividesAll(c) == \A d \in Elems(non_zero_diffs) : d % c = 0

\* ds = [(k_i - min(k)) * u] for some positive integers k_i: every element
\* is a multiple of u and the element of the smallest k is 0
BuiltFrom(ds, u) ==
    /\ ds # <<>>
    /\ 0 \in Elems(ds)
    /\ \A d \in Elems(ds) : d % u = 0

\* every difference is zero or at least the near-zero threshold
ZeroOrAbove(ds) == \A d \in Elems(ds) : d = 0 \/ d >= NearZero

\* the true units a claim ranges over: every hundredth of the grid's range
TrueUnits == ArangeStart..ArangeStop

\* the position in scores of grid point c
IndexOf(c) == ((c - search_low) \div search_step) + 1

\* computed score a is lower than computed score b
Lower(a, b) ==
    \/ a.num * b.den < b.num * a.den
    \/ a.num * b.den = b.num * a.den /\ a.res < b.res

\* computed scores a and b are the same number
Same(a, b) == a.num * b.den = b.num * a.den /\ a.res = b.res

----------------------------------------------------------------------------
\* C1.  Exact recovery: whenever the differences are (k_i - min k) * u for a
\* true unit u, each of them zero or at least 0.1, the value returned is the
\* grid point nearest to u, at most half a grid step (0.05) from u.  (Stated
\* for the samples that leave a difference to fit; the sample whose drops
\* all weigh the same is the case of C3.)
C1_ExactRecovery ==
    \A u \in TrueUnits :
        (Returned /\ BuiltFrom(differences, u) /\ ZeroOrAbove(differences)
           /\ non_zero_diffs # <<>>)
            => 2 * Abs(result - u) <= ArangeStep

\* C2.  Concrete scenario: on [1.2, 2.4, 3.6, 4.8] the call returns 1.2, the
\* score computed at 1.2 is 0 and the score computed at every other grid
\* point is greater than 0.
C2_ConcreteScenario ==
    (Returned /\ differences = <<120, 240, 360, 480>>)
        => /\ result = 120
           /\ \A c \in Grid :
                IF c = 120
                THEN scores[IndexOf(c)].num = 0 /\ scores[IndexOf(c)].res = 0
                ELSE scores[IndexOf(c)].num > 0 \/ scores[IndexOf(c)].res > 0

\* C3.  Empty input: when nothing remains after the filter the call fails
\* with InsufficientDataError; it never returns a unit value.
C3_EmptyInputFails == ~(Returned /\ non_zero_diffs = <<>>)

\* C4.  Grid membership: the value returned is one of the probed grid
\* points search_low + k * search_step.
C4_GridMembership == Returned => result \in Grid

\* a call that returned a grid point other than the first
C4_Witness == Returned /\ result \in Grid /\ result > search_low

C7_NoMutation == [][differences' = differences /\ UNCHANGED scriptVars]_vars

\* a call whose filtered, rounded copy differs from the argument
C7_Witness ==
    /\ Returned
    /\ non_zero_diffs # <<>>
    /\ non_zero_diffs # differences

RECURSIVE StepsAbove(_, _)
\* (k - kmin) * unit for the counts k of ks above kmin, in order
StepsAbove(ks, kmin) ==
    IF ks = <<>> THEN <<>>
    ELSE IF Head(ks) > kmin
         THEN <<(Head(ks) - kmin) * ELECTRON_CHARGE>> \o StepsAbove(Tail(ks), kmin)
         ELSE StepsAbove(Tail(ks), kmin)

\* C9.  Difference-set derivation: the filtered differences of a generated
\* sample are positive and are exactly (k_i - k_min) * unit for the drops
\* with k_i > k_min, in ascending order: every zero of a drop as light as
\* the lightest is dropped and nothing else is.
C9_DifferenceSet ==
    (pc \in {"probe", "done"} /\ drop_masses # <<>>) =>
        /\ \A d \in Elems(non_zero_diffs) : d > 0
        /\ non_zero_diffs =
             StepsAbove(Sorted(electrons_picked), MinOf(electrons_picked))

\* a sample with two drops as light as the lightest and a heavier one
C9_Witness ==
    /\ pc = "done"
    /\ Len(mass_differences) >= 3
    /\ mass_differences[1] = 0
    /\ mass_differences[2] = 0
    /\ non_zero_diffs # <<>>

====
